---------------------------- MODULE Spec2Model ----------------------------
(***************************************************************************)
(* A model of create_digest.py (SubstackDigest): the fetch / score /       *)
(* select / summarize / render pipeline of run_digest and the ledger of    *)
(* processed articles that it loads from and saves to a JSON file.         *)
(*                                                                         *)
(* Text is modelled as a sequence of characters, a character being a       *)
(* one-character string; the character U+00E9 (a non-ASCII letter) is      *)
(* written "U+00E9".  A run of white space that json.dump writes for       *)
(* indent=2 (a line break and the indentation after it) is the single      *)
(* character "\n".                                                         *)
(*                                                                         *)
(* Scores are kept in hundredths (25.0 is 2500) and the unrounded sum in   *)
(* thousandths, so that rounding to two decimals is a real operation.      *)
(***************************************************************************)
EXTENDS Integers, Sequences, FiniteSets, TLC

(***************************************************************************)
(* Generic helpers                                                         *)
(***************************************************************************)
Min(a, b) == IF a <= b THEN a ELSE b

Max(a, b) == IF a >= b THEN a ELSE b

Range(s) == {s[i] : i \in 1..Len(s)}

RECURSIVE Flatten(_)
Flatten(ss) == IF ss = <<>> THEN <<>> ELSE Head(ss) \o Flatten(Tail(ss))

\* s[i], or "EOF" past the end of the text
At(s, i) == IF i >= 1 /\ i <= Len(s) THEN s[i] ELSE "EOF"

Digits == <<"0", "1", "2", "3", "4", "5", "6", "7", "8", "9">>

DigitChars == Range(Digits)

IsDigit(c) == c \in DigitChars

DigitVal(c) == (CHOOSE i \in 1..10 : Digits[i] = c) - 1

\* str(n) for a natural number n
RECURSIVE NatToChars(_)
NatToChars(n) ==
    IF n < 10 THEN <<Digits[n + 1]>>
    ELSE NatToChars(n \div 10) \o <<Digits[(n % 10) + 1]>>

(***************************************************************************)
(* json.dump(self.processed_articles, f, indent=2, default=str)            *)
(***************************************************************************)
\* the replacement with a backslash left as it is
EscapeCharNoBackslash(c) ==
    CASE c = "\"" -> <<"\\", "\"">>
      [] c = "\n" -> <<"\\", "n">>
      [] c = "U+00E9" -> <<"\\", "u", "0", "0", "e", "9">>
      [] OTHER -> <<c>>

\* json.encoder.py_encode_basestring_ascii: the replacement of one character
EscapeChar(c) ==
    CASE c = "\"" -> <<"\\", "\"">>
      [] c = "\\" -> <<"\\", "\\">>
      [] c = "\n" -> <<"\\", "n">>
      [] c = "U+00E9" -> <<"\\", "u", "0", "0", "e", "9">>
      [] OTHER -> <<c>>

RECURSIVE EscapeChars(_)
EscapeChars(s) ==
    IF s = <<>> THEN <<>> ELSE EscapeChar(Head(s)) \o EscapeChars(Tail(s))

DumpString(s) == <<"\"">> \o EscapeChars(s) \o <<"\"">>

\* float.__repr__ of h/100 for a score h in hundredths: "25.0", "0.03", "2.5"
DumpFloat(h) ==
    LET frac == h % 100
    IN  NatToChars(h \div 100) \o <<".">> \o
        (IF frac % 10 = 0 THEN <<Digits[(frac \div 10) + 1]>>
         ELSE <<Digits[(frac \div 10) + 1], Digits[(frac % 10) + 1]>>)

KeyTitle == <<"t", "i", "t", "l", "e">>

KeyLink == <<"l", "i", "n", "k">>

KeyDate == <<"d", "a", "t", "e", "_", "p", "r", "o", "c", "e", "s", "s", "e", "d">>

KeyScore == <<"q", "u", "a", "l", "i", "t", "y", "_", "s", "c", "o", "r", "e">>

KeyFeatured == <<"f", "e", "a", "t", "u", "r", "e", "d">>

KeyReviewed == <<"r", "e", "v", "i", "e", "w", "e", "d">>

DumpPair(key, value) == DumpString(key) \o <<":", " ">> \o value

\* one ledger record, a dict with its keys in insertion order
DumpRecord(r) ==
    <<"{", "\n">> \o DumpPair(KeyTitle, DumpString(r.title))
    \o <<",", "\n">> \o DumpPair(KeyLink, DumpString(r.link))
    \o <<",", "\n">> \o DumpPair(KeyDate, DumpString(r.date_processed))
    \o <<",", "\n">> \o DumpPair(KeyScore, DumpFloat(r.quality_score))
    \o <<"\n", "}">>

RECURSIVE DumpRecords(_)
DumpRecords(rs) ==
    IF Len(rs) = 1 THEN DumpRecord(rs[1])
    ELSE DumpRecord(Head(rs)) \o <<",", "\n">> \o DumpRecords(Tail(rs))

DumpList(rs) ==
    IF rs = <<>> THEN <<"[", "]">>
    ELSE <<"[", "\n">> \o DumpRecords(rs) \o <<"\n", "]">>

\* the text json.dump writes for a ledger {"featured": [...], "reviewed": [...]}
JsonDump(ledger) ==
    <<"{", "\n">> \o DumpPair(KeyFeatured, DumpList(ledger.featured))
    \o <<",", "\n">> \o DumpPair(KeyReviewed, DumpList(ledger.reviewed))
    \o <<"\n", "}">>

(***************************************************************************)
(* json.load(f): the decoder, over the text of the ledger file.  A parse   *)
(* yields [ok, val, next]: whether it succeeded, the value, and the        *)
(* position after it.  Objects become functions from key names to values,  *)
(* arrays sequences, strings character sequences, numbers hundredths.      *)
(***************************************************************************)
ParseFail == [ok |-> FALSE, val |-> <<>>, next |-> 0]

WsChars == {" ", "\n", "\t", "\r"}

IsWs(c) == c \in WsChars

RECURSIVE SkipWs(_, _)
SkipWs(s, i) == IF IsWs(At(s, i)) THEN SkipWs(s, i + 1) ELSE i

HexLetters == {"a", "b", "c", "d", "e", "f", "A", "B", "C", "D", "E", "F"}

IsHex(c) == IsDigit(c) \/ c \in HexLetters

\* the character a \uXXXX escape names
HexChar(h) == IF h = <<"0", "0", "e", "9">> THEN "U+00E9" ELSE "U+other"

\* json.decoder.py_scanstring, from the position after the opening quote
RECURSIVE ScanString(_, _, _)
ScanString(s, i, acc) ==
    LET c == At(s, i)
        esc == At(s, i + 1)
    IN  CASE c = "EOF" -> ParseFail
          [] c = "\"" -> [ok |-> TRUE, val |-> acc, next |-> i + 1]
          [] c = "\n" -> ParseFail
          [] c = "\\" ->
               (CASE esc = "u" ->
                       IF \A k \in 2..5 : IsHex(At(s, i + k))
                       THEN ScanString(s, i + 6,
                                Append(acc, HexChar(<<s[i + 2], s[i + 3], s[i + 4], s[i + 5]>>)))
                       ELSE ParseFail
                  [] esc \in {"\"", "\\", "/"} -> ScanString(s, i + 2, Append(acc, esc))
                  [] esc = "n" -> ScanString(s, i + 2, Append(acc, "\n"))
                  [] esc = "t" -> ScanString(s, i + 2, Append(acc, "\t"))
                  [] OTHER -> ParseFail)
          [] OTHER -> ScanString(s, i + 1, Append(acc, c))

\* the position after the run of digits that starts at i
RECURSIVE DigitsEnd(_, _)
DigitsEnd(s, i) == IF IsDigit(At(s, i)) THEN DigitsEnd(s, i + 1) ELSE i

\* the number the digits s[i..j-1] write
RECURSIVE DigitsValue(_, _, _)
DigitsValue(s, i, j) ==
    IF i >= j THEN 0 ELSE DigitsValue(s, i, j - 1) * 10 + DigitVal(s[j - 1])

\* json.scanner NUMBER_RE, (0|[1-9]\d*)(\.\d+)?, and float() of the match, in
\* hundredths; digits after the second decimal are below the model's unit
ParseNumber(s, i) ==
    LET intEnd == IF At(s, i) = "0" THEN i + 1 ELSE DigitsEnd(s, i)
        hasFrac == At(s, intEnd) = "." /\ IsDigit(At(s, intEnd + 1))
        fracEnd == IF hasFrac THEN DigitsEnd(s, intEnd + 1) ELSE intEnd
        tenths == IF hasFrac THEN DigitVal(s[intEnd + 1]) ELSE 0
        hundredths == IF hasFrac /\ fracEnd > intEnd + 2 THEN DigitVal(s[intEnd + 2]) ELSE 0
    IN  IF ~IsDigit(At(s, i)) THEN ParseFail
        ELSE [ok |-> TRUE,
              val |-> DigitsValue(s, i, intEnd) * 100 + tenths * 10 + hundredths,
              next |-> fracEnd]

\* the name of an object key
KeyName(k) ==
    CASE k = KeyTitle -> "title"
      [] k = KeyLink -> "link"
      [] k = KeyDate -> "date_processed"
      [] k = KeyScore -> "quality_score"
      [] k = KeyFeatured -> "featured"
      [] k = KeyReviewed -> "reviewed"
      [] OTHER -> "other_key"

RECURSIVE ParseValue(_, _)
RECURSIVE ParseElems(_, _, _)
RECURSIVE ParsePairs(_, _, _)

\* the elements of an array, from the first one to the closing bracket
ParseElems(s, i, acc) ==
    LET v == ParseValue(s, i)
        j == SkipWs(s, v.next)
    IN  IF ~v.ok THEN ParseFail
        ELSE CASE At(s, j) = "," -> ParseElems(s, SkipWs(s, j + 1), Append(acc, v.val))
               [] At(s, j) = "]" -> [ok |-> TRUE, val |-> Append(acc, v.val), next |-> j + 1]
               [] OTHER -> ParseFail

\* the pairs of an object, from the first key to the closing brace; a key
\* met again replaces the earlier value, as in a Python dict
ParsePairs(s, i, acc) ==
    LET k == IF At(s, i) = "\"" THEN ScanString(s, i + 1, <<>>) ELSE ParseFail
        c == SkipWs(s, k.next)
        v == ParseValue(s, SkipWs(s, c + 1))
        j == SkipWs(s, v.next)
        obj == (KeyName(k.val) :> v.val) @@ acc
    IN  IF ~k.ok \/ At(s, c) # ":" THEN ParseFail
        ELSE IF ~v.ok THEN ParseFail
        ELSE CASE At(s, j) = "," -> ParsePairs(s, SkipWs(s, j + 1), obj)
               [] At(s, j) = "}" -> [ok |-> TRUE, val |-> obj, next |-> j + 1]
               [] OTHER -> ParseFail

\* json.scanner.py_make_scanner _scan_once: one value starting at i
ParseValue(s, i) ==
    LET c == At(s, i)
        j == SkipWs(s, i + 1)
    IN  CASE c = "\"" -> ScanString(s, i + 1, <<>>)
          [] c = "[" -> IF At(s, j) = "]"
                        THEN [ok |-> TRUE, val |-> <<>>, next |-> j + 1]
                        ELSE ParseElems(s, j, <<>>)
          [] c = "{" -> IF At(s, j) = "}"
                        THEN [ok |-> TRUE, val |-> <<>>, next |-> j + 1]
                        ELSE ParsePairs(s, j, <<>>)
          [] IsDigit(c) -> ParseNumber(s, i)
          [] OTHER -> ParseFail

\* json.load: one value, white space around it, and nothing after it
JsonLoad(text) ==
    LET v == ParseValue(text, SkipWs(text, 1))
    IN  IF v.ok /\ SkipWs(text, v.next) = Len(text) + 1
        THEN [ok |-> TRUE, val |-> v.val]
        ELSE [ok |-> FALSE, val |-> <<>>]


(***************************************************************************)
(* Python list operations                                                  *)
(***************************************************************************)
\* s[:count] of a list s, for any integer count
SliceTo(s, count) ==
    LET n == Len(s)
        stop == IF count >= 0 THEN Min(count, n) ELSE Max(n + count, 0)
    IN  SubSeq(s, 1, stop)

\* s[count:] of a list s, for any integer count
SliceFrom(s, count) ==
    LET n == Len(s)
        start == IF count >= 0 THEN Min(count, n) ELSE Max(n + count, 0)
    IN  SubSeq(s, start + 1, n)

\* p put before the elements of its own key
InsertByKeyDescBeforeEqual(sorted, p) ==
    LET before == {i \in 1..Len(sorted) : sorted[i].key > p.key}
        k == IF before = {} THEN 0 ELSE CHOOSE i \in before : \A j \in before : j <= i
    IN  SubSeq(sorted, 1, k) \o <<p>> \o SubSeq(sorted, k + 1, Len(sorted))

\* p put into a list sorted by descending key, after every element whose key
\* is not smaller: the place a stable sort with reverse=True gives it
InsertByKeyDesc(sorted, p) ==
    LET before == {i \in 1..Len(sorted) : sorted[i].key >= p.key}
        k == IF before = {} THEN 0 ELSE CHOOSE i \in before : \A j \in before : j <= i
    IN  SubSeq(sorted, 1, k) \o <<p>> \o SubSeq(sorted, k + 1, Len(sorted))

\* sorted(pairs, key=lambda p: p.key, reverse=True): a stable sort
RECURSIVE SortByKeyDesc(_)
SortByKeyDesc(pairs) ==
    IF pairs = <<>> THEN <<>>
    ELSE InsertByKeyDesc(SortByKeyDesc(SubSeq(pairs, 1, Len(pairs) - 1)), pairs[Len(pairs)])

(***************************************************************************)
(* calculate_quality_score                                                 *)
(***************************************************************************)
FullLengthWords == 2000

LengthPoints == 50

PointsPerComment == 5

CommentPointsCap == 50

\* length_score = min(word_count / 2000, 1.0) * 50, in thousandths
LengthScore(word_count) ==
    Min((word_count * LengthPoints * 1000) \div FullLengthWords, LengthPoints * 1000)

\* the comment part without its cap
CommentScoreUncapped(comments) == comments * PointsPerComment * 1000

\* comment_score = min(comments * 5, 50) if comments > 0 else 0, in thousandths
CommentScore(comments) ==
    IF comments > 0 THEN Min(comments * PointsPerComment, CommentPointsCap) * 1000 ELSE 0

\* round(x, 2) of a sum of th thousandths, in hundredths.  The sum is a binary
\* float: when its decimal value lies midway between two hundredths the float
\* lies just above or just below it and round() follows the float, so both
\* neighbours are possible results there; elsewhere the nearest one is.
Round2(th) ==
    IF th % 10 = 5 THEN {th \div 10, (th \div 10) + 1} ELSE {(th + 5) \div 10}

\* the values calculate_quality_score can return for an article, in hundredths
calculate_quality_score(word_count, comments) ==
    Round2(LengthScore(word_count) + CommentScore(comments))

(***************************************************************************)
(* select_top_articles                                                     *)
(***************************************************************************)
\* the operands of the sum in calculate_quality_score, which are all the
\* score depends on: the capped length part and the capped comment part
ScoreOperands(a) == <<LengthScore(a.word_count), CommentScore(a.comments)>>

\* every way of giving each article of a list one of its possible scores
RECURSIVE ScoreChoices(_)
ScoreChoices(articles) ==
    IF articles = <<>> THEN {<<>>}
    ELSE LET n == Len(articles)
             a == articles[n]
         IN  {Append(front, [a EXCEPT !.quality_score = sc]) :
                 front \in ScoreChoices(SubSeq(articles, 1, n - 1)),
                 sc \in calculate_quality_score(a.word_count, a.comments)}

\* the lists the scoring loop can leave: round() is a function of the float
\* it is given, so articles with the same operands get the same score
ScoredLists(articles) ==
    {scored \in ScoreChoices(articles) :
        \A i, j \in 1..Len(scored) :
            ScoreOperands(scored[i]) = ScoreOperands(scored[j])
                => scored[i].quality_score = scored[j].quality_score}

\* sorted(articles, key=lambda x: x.quality_score, reverse=True)
SortByScore(articles) ==
    LET pairs == [i \in 1..Len(articles) |->
                     [key |-> articles[i].quality_score, val |-> articles[i]]]
        sorted == SortByKeyDesc(pairs)
    IN  [i \in 1..Len(articles) |-> sorted[i].val]

\* the split of an already scored list, as select_top_articles returns it,
\* with the list itself, whose articles the scoring loop has changed in place
SplitTop(scored, count) ==
    LET sorted_articles == SortByScore(scored)
    IN  [articles |-> scored,
         featured |-> SliceTo(sorted_articles, count),
         others |-> SliceFrom(sorted_articles, count)]

\* the results select_top_articles(articles, count) can have
select_top_articles(articles, count) ==
    {SplitTop(scored, count) : scored \in ScoredLists(articles)}


(***************************************************************************)
(* categorize_newsletter.  Characters outside ASCII in the table's keys    *)
(* are written (R), (mag) and (mushroom).                                  *)
(***************************************************************************)
source_categories ==
    [s \in {"4IR - Daily AI News"} |-> "AI News & Updates"]
    @@ [s \in {"The Strategy Stack", "The Business Engineer", "AI Cadence"}
           |-> "Strategy & Business"]
    @@ [s \in {"AI Governance, Ethics and Leadership", "Luiza's Newsletter",
               "AI For Humanity"} |-> "AI Governance & Ethics"]
    @@ [s \in {"Inference by Sequoia Capital", "AI Newsletter",
               "The Algorithmic Bridge", "AI blew my mind", "The AI Maker"}
           |-> "AI Research & Technical"]
    @@ [s \in {"Lenny's Newsletter", "The Founders Corner(R)", "Design with AI",
               "The Product Compass", "Build to Launch", "Product with Attitude"}
           |-> "Product & Entrepreneurship"]
    @@ [s \in {"Leadership in Change", "AI Can Do That? (mag)", "KP's Column"}
           |-> "Leadership & Career"]
    @@ [s \in {"The AI Creator Drop", "Sabrina Ramonov (mushroom)",
               "Tech World With Milan Newsletter", "The Design System Guide"}
           |-> "Development & Tools"]
    @@ [s \in {"6 'P's in AI Pods (AI6P)"} |-> "AI Analysis & Insights"]

\* the lookup with the source itself as the default
categorize_newsletter_no_fallback(source) ==
    IF source \in DOMAIN source_categories THEN source_categories[source] ELSE source

\* source_categories.get(source, 'Other')
categorize_newsletter(source) ==
    IF source \in DOMAIN source_categories THEN source_categories[source] ELSE "Other"

(***************************************************************************)
(* generate_digest_html.  The document is the sequence of its blocks: the  *)
(* header, the featured heading, one "featured" block per featured         *)
(* article, and, when there are other articles, the heading of the         *)
(* additional articles, then per category its title and one                *)
(* "other-article-item" block per article; the footer ends it.             *)
(***************************************************************************)
\* the categories of a list in the order the grouping loop first meets them
RECURSIVE CategoryOrder(_)
CategoryOrder(articles) ==
    IF articles = <<>> THEN <<>>
    ELSE LET n == Len(articles)
             front == CategoryOrder(SubSeq(articles, 1, n - 1))
             category == categorize_newsletter(articles[n].source)
         IN  IF category \in Range(front) THEN front ELSE Append(front, category)

\* categorized[category]: the articles of a category, in list order
CategoryArticles(articles, category) ==
    SelectSeq(articles, LAMBDA a : categorize_newsletter(a.source) = category)

\* sorted(categorized.items(), key=lambda x: len(x[1]), reverse=True)
SortedCategories(articles) ==
    LET order == CategoryOrder(articles)
    IN  SortByKeyDesc([i \in 1..Len(order) |->
            [key |-> Len(CategoryArticles(articles, order[i])), val |-> order[i]]])

FeaturedBlock(a) ==
    [tag |-> "featured", link |-> a.link, title |-> a.title, source |-> a.source,
     published |-> a.published, summary |-> a.summary,
     quality_score |-> a.quality_score, word_count |-> a.word_count,
     comments |-> a.comments]

OtherBlock(a) ==
    [tag |-> "other-article-item", link |-> a.link, title |-> a.title,
     source |-> a.source, comments |-> a.comments]

\* one category section: its title, then its articles sorted by score
CategorySection(articles, category) ==
    LET members == SortByScore(CategoryArticles(articles, category))
    IN  <<[tag |-> "category-title", category |-> category, count |-> Len(members)]>>
        \o [i \in 1..Len(members) |-> OtherBlock(members[i])]

generate_digest_html(featured_articles, other_articles) ==
    LET cats == SortedCategories(other_articles)
    IN  <<[tag |-> "header", featured |-> Len(featured_articles),
           additional |-> Len(other_articles)],
          [tag |-> "h2", text |-> "Featured Articles"]>>
        \o [i \in 1..Len(featured_articles) |-> FeaturedBlock(featured_articles[i])]
        \o (IF other_articles # <<>>
            THEN <<[tag |-> "h2", text |-> "Additional Articles by Category"]>>
                 \o Flatten([i \in 1..Len(cats) |->
                                CategorySection(other_articles, cats[i].val)])
            ELSE <<>>)
        \o <<[tag |-> "footer"]>>


(***************************************************************************)
(* The ledger: load_processed_articles and save_processed_articles         *)
(***************************************************************************)
\* a file that does not exist, and a file holding a text
NoFile == [exists |-> FALSE, text |-> <<>>]

FileOf(text) == [exists |-> TRUE, text |-> text]

EmptyLedger == [featured |-> <<>>, reviewed |-> <<>>]

\* load_processed_articles: [ok, val], ok false when json.load raises
load_processed_articles(file) ==
    IF file.exists THEN JsonLoad(file.text) ELSE [ok |-> TRUE, val |-> EmptyLedger]

\* save_processed_articles: the file after open(..., 'w') and json.dump
save_processed_articles(ledger) == FileOf(JsonDump(ledger))

\* self.processed_articles.get(bucket, [])
LedgerGet(ledger, bucket) ==
    IF bucket \in DOMAIN ledger THEN ledger[bucket] ELSE <<>>

\* the links the skip test of fetch_recent_articles compares an entry with
LedgerLinks(ledger) ==
    {r.link : r \in Range(LedgerGet(ledger, "featured"))}
    \cup {r.link : r \in Range(LedgerGet(ledger, "reviewed"))}

\* datetime.now().isoformat() of the clock
IsoFormat(t) == NatToChars(t)

\* the record run_digest appends for an article
LedgerRecord(a, t) ==
    [title |-> a.title, link |-> a.link, date_processed |-> IsoFormat(t),
     quality_score |-> a.quality_score]

RecordArticlesOverwrite(ledger, featured_articles, other_articles, t) ==
    [featured |-> [i \in 1..Len(featured_articles) |->
                      LedgerRecord(featured_articles[i], t)],
     reviewed |-> [i \in 1..Len(other_articles) |->
                      LedgerRecord(other_articles[i], t)]]

\* the ledger after the two append loops of run_digest
RecordArticles(ledger, featured_articles, other_articles, t) ==
    [ledger EXCEPT
        !.featured = @ \o [i \in 1..Len(featured_articles) |->
                              LedgerRecord(featured_articles[i], t)],
        !.reviewed = @ \o [i \in 1..Len(other_articles) |->
                              LedgerRecord(other_articles[i], t)]]

(***************************************************************************)
(* The feeds and what they can return                                      *)
(***************************************************************************)
\* self.newsletter_feeds (two of its URLs)
newsletter_feeds ==
    <<"https://thestrategystack.substack.com/feed", "https://kp.substack.com/feed">>

\* feed.feed.get('title', feed_url): the first feed has a title, the second none
SourceName(feed_url) ==
    IF feed_url = "https://thestrategystack.substack.com/feed"
    THEN "The Strategy Stack" ELSE feed_url

\* an entry without published_parsed
NoDate == -1

MaxEntries == 2

MaxRuns == 2

\* run_digest(days_back=7, ...)
DefaultDaysBack == 7

\* the values of featured_count that run_digest is called with
FeaturedCounts == {2}

\* the entries a feed can hold when the clock shows t and the cutoff is c:
\* link x with two contents and an old copy, link y undated and with the score
\* of x's first content, link z without a title
EntryPool(t, c) ==
    { [link |-> <<"x">>, has_title |-> TRUE, title |-> <<"A">>,
       published |-> t - 1, word_count |-> 1000, comments |-> 0],
      [link |-> <<"x">>, has_title |-> TRUE, title |-> <<"\"", "A", "\\">>,
       published |-> t - 2, word_count |-> 2000, comments |-> 10],
      [link |-> <<"x">>, has_title |-> TRUE, title |-> <<"A">>,
       published |-> c - 1, word_count |-> 1000, comments |-> 0],
      [link |-> <<"y">>, has_title |-> TRUE, title |-> <<"U+00E9", "u">>,
       published |-> NoDate, word_count |-> 0, comments |-> 5],
      [link |-> <<"z">>, has_title |-> FALSE, title |-> <<>>,
       published |-> t - 1, word_count |-> 3000, comments |-> 12] }

RECURSIVE SeqsUpTo(_, _)
SeqsUpTo(S, n) ==
    IF n = 0 THEN {<<>>}
    ELSE LET shorter == SeqsUpTo(S, n - 1)
         IN  shorter \cup {Append(q, e) : q \in {r \in shorter : Len(r) = n - 1}, e \in S}

\* what feedparser.parse can do for one feed: raise, or return entries
FeedResponses(t, c) ==
    {[raises |-> TRUE, entries |-> <<>>]}
    \cup {[raises |-> FALSE, entries |-> es] : es \in SeqsUpTo(EntryPool(t, c), MaxEntries)}

(***************************************************************************)
(* fetch_recent_articles: the body of the loop over one feed's entries     *)
(***************************************************************************)
NewArticle(entry, pub_date, source_name) ==
    [title |-> entry.title, link |-> entry.link, published |-> pub_date,
     source |-> source_name, word_count |-> entry.word_count,
     comments |-> entry.comments, quality_score |-> 0, summary |-> ""]

AlreadyProcessedSameTitle(entry, ledger) ==
    \E bucket \in {"featured", "reviewed"} :
        \E r \in Range(LedgerGet(ledger, bucket)) :
            r.link = entry.link /\ r.title = entry.title

\* whether the entry is skipped as already processed
AlreadyProcessed(entry, ledger) == entry.link \in LedgerLinks(ledger)

\* the loop over feed.entries: the articles appended, and whether an
\* exception left the loop (an entry without a title raises at entry.title)
RECURSIVE ProcessEntries(_, _, _, _, _)
ProcessEntries(entries, ledger, cutoff, t, source_name) ==
    IF entries = <<>> THEN [articles |-> <<>>, raised |-> FALSE]
    ELSE LET entry == Head(entries)
             pub_date == IF entry.published = NoDate THEN t ELSE entry.published
             rest == ProcessEntries(Tail(entries), ledger, cutoff, t, source_name)
         IN  IF pub_date < cutoff THEN rest
             ELSE IF AlreadyProcessed(entry, ledger) THEN rest
             ELSE IF ~entry.has_title THEN [articles |-> <<>>, raised |-> TRUE]
             ELSE [rest EXCEPT
                      !.articles = <<NewArticle(entry, pub_date, source_name)>> \o @]

\* the try block of one pass of the loop over the feeds, for the feed's response
ProcessFeed(response, ledger, cutoff, t, source_name) ==
    IF response.raises THEN [articles |-> <<>>, raised |-> TRUE]
    ELSE ProcessEntries(response.entries, ledger, cutoff, t, source_name)

NextFeedAbortOnError(raised, idx) ==
    IF raised THEN Len(newsletter_feeds) + 1 ELSE idx + 1

\* the feed the loop goes to after the pass over feed idx: the except clause
\* ends in continue, so a pass that raised goes on like one that did not
NextFeed(raised, idx) == idx + 1

\* fetch_recent_articles as a whole, over the feeds from idx on: the list of
\* articles it returns when the feeds answer with responses
RECURSIVE FetchFrom(_, _, _, _, _, _)
FetchFrom(idx, feeds, responses, ledger, cutoff, t) ==
    IF idx > Len(feeds) THEN <<>>
    ELSE LET pass == ProcessFeed(responses[idx], ledger, cutoff, t, SourceName(feeds[idx]))
         IN  pass.articles
             \o FetchFrom(NextFeed(pass.raised, idx), feeds, responses, ledger, cutoff, t)

(***************************************************************************)
(* scrape_comments.  A page is the sequence of its nodes, each a piece of  *)
(* text or an <a> element with its href and its text; the patterns are     *)
(* matched character by character.                                         *)
(***************************************************************************)
UpperLetters == <<"C", "O", "M", "E", "N", "T", "S", "R", "P", "L", "I">>

LowerLetters == <<"c", "o", "m", "e", "n", "t", "s", "r", "p", "l", "i">>

\* re.IGNORECASE: the character as the patterns' letters are compared
Lower(c) ==
    IF \E k \in 1..Len(UpperLetters) : UpperLetters[k] = c
    THEN LowerLetters[CHOOSE k \in 1..Len(UpperLetters) : UpperLetters[k] = c]
    ELSE c

\* whether the letters of lit are at position i of s, whatever their case
LitAt(s, i, lit) == \A k \in 1..Len(lit) : Lower(At(s, i + k - 1)) = lit[k]

\* "comments?" and "replies?" at i: the position after the word and the "s"
\* if there is one, 0 when the word is not at i
WordEnd(s, i, word) ==
    IF ~LitAt(s, i, word) THEN 0
    ELSE IF Lower(At(s, i + Len(word))) = "s" THEN i + Len(word) + 1
    ELSE i + Len(word)

NoMatch == [ok |-> FALSE, val |-> 0, next |-> 0]

\* a match at i of (\d+)\s+<word>s?(?:\s|$)
MatchBefore(s, i, word) ==
    LET d == DigitsEnd(s, i)
        w == SkipWs(s, d)
        e == WordEnd(s, w, word)
    IN  IF d > i /\ w > d /\ e > 0 /\ (IsWs(At(s, e)) \/ At(s, e) = "EOF")
        THEN [ok |-> TRUE, val |-> DigitsValue(s, i, d),
              next |-> IF IsWs(At(s, e)) THEN e + 1 ELSE e]
        ELSE NoMatch

\* a match at i of <word>s?\s*\((\d+)\)
MatchAfter(s, i, word) ==
    LET e == WordEnd(s, i, word)
        w == SkipWs(s, e)
        d == DigitsEnd(s, w + 1)
    IN  IF e > 0 /\ At(s, w) = "(" /\ d > w + 1 /\ At(s, d) = ")"
        THEN [ok |-> TRUE, val |-> DigitsValue(s, w + 1, d), next |-> d + 1]
        ELSE NoMatch

WordComment == <<"c", "o", "m", "m", "e", "n", "t">>

WordReplie == <<"r", "e", "p", "l", "i", "e">>

\* comment_patterns, in the order of the list
comment_patterns ==
    << [number |-> "before", word |-> WordComment],
       [number |-> "before", word |-> WordReplie],
       [number |-> "after", word |-> WordComment],
       [number |-> "after", word |-> WordReplie] >>

MatchAt(s, i, pattern) ==
    IF pattern.number = "before" THEN MatchBefore(s, i, pattern.word)
    ELSE MatchAfter(s, i, pattern.word)

\* re.findall(pattern, s, re.IGNORECASE) from position i on: the numbers of
\* the matches, left to right, each search starting where the last match ended
RECURSIVE FindAll(_, _, _)
FindAll(s, i, pattern) ==
    IF i > Len(s) THEN <<>>
    ELSE LET m == MatchAt(s, i, pattern)
         IN  IF m.ok THEN <<m.val>> \o FindAll(s, m.next, pattern)
             ELSE FindAll(s, i + 1, pattern)

\* the first of a list of numbers
FirstOf(values) == values[1]

\* max(int(match) for match in matches)
MaxOf(values) == CHOOSE v \in Range(values) : \A u \in Range(values) : u <= v

\* soup.get_text(): the text of all the nodes, one after the other
PageText(page) == Flatten([k \in 1..Len(page) |-> page[k].text])

\* the loop over comment_patterns from pattern k on: the first pattern with
\* matches decides
RECURSIVE TryPatterns(_, _)
TryPatterns(page_text, k) ==
    IF k > Len(comment_patterns) THEN [found |-> FALSE, comments |-> 0]
    ELSE LET matches == FindAll(page_text, 1, comment_patterns[k])
         IN  IF matches # <<>> THEN [found |-> TRUE, comments |-> MaxOf(matches)]
             ELSE TryPatterns(page_text, k + 1)

\* soup.find_all('a', href=re.compile(r'#?comments?', re.IGNORECASE))
CommentLinks(page) ==
    SelectSeq(page, LAMBDA node :
        /\ node.tag = "a"
        /\ \E i \in 1..Len(node.href) : LitAt(node.href, i, WordComment))

\* re.search(r'(\d+)', s): the first run of digits
FirstNumber(s) ==
    LET starts == {i \in 1..Len(s) : IsDigit(s[i])}
        i == CHOOSE j \in starts : \A k \in starts : j <= k
    IN  IF starts = {} THEN NoMatch
        ELSE [ok |-> TRUE, val |-> DigitsValue(s, i, DigitsEnd(s, i)),
              next |-> DigitsEnd(s, i)]

\* the loop over comment_links: the first link with a number in its text
RECURSIVE TryLinks(_)
TryLinks(links) ==
    IF links = <<>> THEN 0
    ELSE LET match == FirstNumber(Head(links).text)
         IN  IF match.ok THEN match.val ELSE TryLinks(Tail(links))

\* what requests.get can do: answer with a page, raise, or time out
PageOf(page) == [outcome |-> "page", page |-> page]

FetchFailures ==
    {[outcome |-> "connection_error", page |-> <<>>],
     [outcome |-> "timeout", page |-> <<>>]}

\* scrape_comments: the number it returns for what requests.get did
scrape_comments(response) ==
    IF response.outcome # "page" THEN 0
    ELSE LET by_pattern == TryPatterns(PageText(response.page), 1)
         IN  IF by_pattern.found THEN by_pattern.comments
             ELSE TryLinks(CommentLinks(response.page))

(***************************************************************************)
(* summarize_article                                                       *)
(***************************************************************************)
\* what the call to the summarization service can do
SummarizerOutcomes == {"text", "api_error", "malformed_response"}

summarize_article_no_placeholder(outcome) ==
    IF outcome = "text" THEN "A two sentence summary." ELSE ""

\* what summarize_article returns: the text of the response, or the
\* placeholder when anything in the try block raised
summarize_article(outcome) ==
    IF outcome = "text" THEN "A two sentence summary." ELSE "Summary unavailable."

(***************************************************************************)
(* The state: the environment and the files, then one SubstackDigest       *)
(* process (its instance fields and the locals of run_digest), then the    *)
(* record of what the process did                                          *)
(***************************************************************************)
VARIABLES
    env_key,            \* os.getenv('CLAUDE_API_KEY'): "unset" when absent
    processed_file,     \* the file processed_articles.json
    digest_files,       \* the names of the digest files written
    web,                \* what the feeds answer, where that is fixed beforehand
    now,                \* the clock
    runs,               \* the processes started so far
    pc,                 \* where the process is
    processed_articles, \* self.processed_articles
    featured_count,     \* the argument of run_digest
    cutoff_date,        \* fetch_recent_articles' cutoff_date
    feed_idx,           \* the feed the loop of fetch_recent_articles is at
    articles,           \* articles, in fetch_recent_articles and run_digest
    featured,           \* featured, in run_digest
    others,             \* others, in run_digest
    html_digest,        \* html_digest, in run_digest
    sum_idx,            \* the featured article the summary loop is at
    io,                 \* the kinds of input and output the process has done
    at_start,           \* the files as they were when the process started
    sent                \* the links sent to the summarizer, and whether it failed

vars == <<env_key, processed_file, digest_files, web, now, runs, pc,
          processed_articles, featured_count, cutoff_date, feed_idx, articles,
          featured, others, html_digest, sum_idx, io, at_start, sent>>

files == <<processed_file, digest_files>>

locals == <<featured_count, cutoff_date, feed_idx, articles, featured, others,
            html_digest, sum_idx, sent>>

EnvKeys == {"unset", "", "sk-ant-key"}

FirstDay == 20

\* the locals of a process that has not run yet
Fresh ==
    /\ featured_count = 0
    /\ cutoff_date = 0
    /\ feed_idx = 0
    /\ articles = <<>>
    /\ featured = <<>>
    /\ others = <<>>
    /\ html_digest = <<>>
    /\ sum_idx = 0
    /\ sent = <<>>

Init ==
    /\ env_key \in EnvKeys
    /\ processed_file = NoFile
    /\ digest_files = {}
    /\ web = <<>>
    /\ now = FirstDay
    /\ runs = 1
    /\ pc = "start"
    /\ processed_articles = EmptyLedger
    /\ io = {}
    /\ at_start = [processed_file |-> NoFile, digest_files |-> {}]
    /\ Fresh

\* "not claude_api_key": the variable is unset (None) or empty
KeyMissingOnlyUnset(key) == key = "unset"

KeyMissing(key) == key \in {"unset", ""}

\* SubstackDigest.__init__: the key is looked up first, and only then is the
\* ledger loaded
Construct ==
    /\ pc = "start"
    /\ IF KeyMissing(env_key)
       THEN /\ pc' = "raised_ValueError"
            /\ UNCHANGED <<processed_articles, io>>
       ELSE LET loaded == load_processed_articles(processed_file)
            IN  /\ io' = io \cup {"read_ledger"}
                /\ IF loaded.ok
                   THEN pc' = "ready" /\ processed_articles' = loaded.val
                   ELSE pc' = "raised_JSONDecodeError" /\ UNCHANGED processed_articles
    /\ UNCHANGED <<env_key, files, web, now, runs, at_start, locals>>

\* run_digest up to the loop over the feeds: cutoff_date is computed
StartRun ==
    /\ pc = "ready"
    /\ \E count \in FeaturedCounts : featured_count' = count
    /\ cutoff_date' = now - DefaultDaysBack
    /\ feed_idx' = 1
    /\ pc' = "fetching"
    /\ UNCHANGED <<env_key, files, web, now, runs, processed_articles, articles,
                   featured, others, html_digest, sum_idx, io, at_start, sent>>

\* one pass of the loop over self.newsletter_feeds, try and except included,
\* when the feed answers with response
FetchFeed(response) ==
    /\ pc = "fetching"
    /\ LET pass == ProcessFeed(response, processed_articles, cutoff_date, now,
                               SourceName(newsletter_feeds[feed_idx]))
           next_idx == NextFeed(pass.raised, feed_idx)
       IN  /\ articles' = articles \o pass.articles
           /\ io' = io \cup {"fetch_feed"}
                       \cup (IF pass.articles # <<>> THEN {"fetch_page"} ELSE {})
           /\ feed_idx' = next_idx
           /\ pc' = IF next_idx > Len(newsletter_feeds) THEN "fetched" ELSE "fetching"
    /\ UNCHANGED <<env_key, files, web, now, runs, processed_articles, featured_count,
                   cutoff_date, featured, others, html_digest, sum_idx, at_start, sent>>

\* the pass, for whatever the feed answers when it is asked
FetchAnyFeed == \E response \in FeedResponses(now, cutoff_date) : FetchFeed(response)

\* "not articles", the test before the early return of run_digest
NoArticlesNever(fetched) == FALSE

NoArticles(fetched) == fetched = <<>>

\* run_digest: "if not articles: return"
EarlyExit ==
    /\ pc = "fetched"
    /\ NoArticles(articles)
    /\ pc' = "done"
    /\ UNCHANGED <<env_key, files, web, now, runs, processed_articles, io, at_start,
                   locals>>

\* run_digest: featured, others = self.select_top_articles(articles, featured_count)
Select ==
    /\ pc = "fetched"
    /\ ~NoArticles(articles)
    /\ \E split \in select_top_articles(articles, featured_count) :
          /\ articles' = split.articles
          /\ featured' = split.featured
          /\ others' = split.others
    /\ sum_idx' = 1
    /\ pc' = "summarizing"
    /\ UNCHANGED <<env_key, files, web, now, runs, processed_articles, featured_count,
                   cutoff_date, feed_idx, html_digest, io, at_start, sent>>

\* one pass of "for article in featured: article.summary = ..."
Summarize ==
    /\ pc = "summarizing"
    /\ sum_idx <= Len(featured)
    /\ \E outcome \in SummarizerOutcomes :
          /\ featured' = [featured EXCEPT ![sum_idx].summary = summarize_article(outcome)]
          /\ sent' = Append(sent, [link |-> featured[sum_idx].link,
                                   failed |-> outcome # "text"])
    /\ sum_idx' = sum_idx + 1
    /\ io' = io \cup {"summarize"}
    /\ UNCHANGED <<env_key, files, web, now, runs, pc, processed_articles,
                   featured_count, cutoff_date, feed_idx, articles, others,
                   html_digest, at_start>>

\* f"ai_digest_{timestamp}.html", the timestamp being the clock's
DigestFilename(t) == <<"ai_digest_">> \o NatToChars(t) \o <<".html">>

\* run_digest: the digest is generated and written to ai_digest_<timestamp>.html
WriteDigest ==
    /\ pc = "summarizing"
    /\ sum_idx > Len(featured)
    /\ html_digest' = generate_digest_html(featured, others)
    /\ digest_files' = digest_files \cup {DigestFilename(now)}
    /\ io' = io \cup {"write_digest"}
    /\ pc' = "recording"
    /\ UNCHANGED <<env_key, processed_file, web, now, runs, processed_articles,
                   featured_count, cutoff_date, feed_idx, articles, featured, others,
                   sum_idx, at_start, sent>>

\* run_digest: the two append loops and save_processed_articles
UpdateLedger ==
    /\ pc = "recording"
    /\ processed_articles' = RecordArticles(processed_articles, featured, others, now)
    /\ processed_file' = save_processed_articles(processed_articles')
    /\ io' = io \cup {"write_ledger"}
    /\ pc' = "done"
    /\ UNCHANGED <<env_key, digest_files, web, now, runs, at_start, locals>>

Ended == pc \in {"done", "raised_ValueError", "raised_JSONDecodeError"}

\* the process has ended and the script is started again, later
NextProcess ==
    /\ Ended
    /\ runs < MaxRuns
    /\ runs' = runs + 1
    /\ now' = now + 1
    /\ env_key' \in EnvKeys
    /\ at_start' = [processed_file |-> processed_file, digest_files |-> digest_files]
    /\ pc' = "start"
    /\ processed_articles' = EmptyLedger
    /\ io' = {}
    /\ featured_count' = 0
    /\ cutoff_date' = 0
    /\ feed_idx' = 0
    /\ articles' = <<>>
    /\ featured' = <<>>
    /\ others' = <<>>
    /\ html_digest' = <<>>
    /\ sum_idx' = 0
    /\ sent' = <<>>
    /\ UNCHANGED <<files, web>>

Next ==
    \/ Construct
    \/ StartRun
    \/ FetchAnyFeed
    \/ EarlyExit
    \/ Select
    \/ Summarize
    \/ WriteDigest
    \/ UpdateLedger
    \/ NextProcess

\* the script, run again and again over the same ledger file
Spec == Init /\ [][Next]_vars

(***************************************************************************)
(* fetch_recent_articles alone: a constructed instance with any ledger of  *)
(* LedgerPool, and feeds whose answers are fixed beforehand in web          *)
(***************************************************************************)
SeedRecord(link, title, score) ==
    [title |-> title, link |-> link, date_processed |-> IsoFormat(FirstDay - 1),
     quality_score |-> score]

LedgerPool ==
    { EmptyLedger,
      [featured |-> <<SeedRecord(<<"x">>, <<"A">>, 2500)>>, reviewed |-> <<>>],
      [featured |-> <<>>, reviewed |-> <<SeedRecord(<<"y">>, <<"o", "l", "d">>, 2500)>>],
      [featured |-> <<SeedRecord(<<"x">>, <<"A">>, 2500)>>,
       reviewed |-> <<SeedRecord(<<"y">>, <<"o", "l", "d">>, 2500)>>] }

InitFetch ==
    /\ env_key = "sk-ant-key"
    /\ processed_articles \in LedgerPool
    /\ processed_file = save_processed_articles(processed_articles)
    /\ digest_files = {}
    /\ now = FirstDay
    /\ runs = 1
    /\ pc = "fetching"
    /\ io = {"read_ledger"}
    /\ at_start = [processed_file |-> processed_file, digest_files |-> {}]
    /\ featured_count \in FeaturedCounts
    /\ cutoff_date = now - DefaultDaysBack
    /\ web \in [1..Len(newsletter_feeds) -> FeedResponses(now, cutoff_date)]
    /\ feed_idx = 1
    /\ articles = <<>>
    /\ featured = <<>>
    /\ others = <<>>
    /\ html_digest = <<>>
    /\ sum_idx = 0
    /\ sent = <<>>

\* the pass over the feed the loop is at, for the answer web fixes
FetchWebFeed == pc = "fetching" /\ FetchFeed(web[feed_idx])

NextFetch == FetchWebFeed

SpecFetch == InitFetch /\ [][NextFetch]_vars

(***************************************************************************)
(* The parts of an instance on their own.  Each specification below starts *)
(* from a constructed instance that has called nothing yet (Idle) and      *)
(* calls the methods a claim is about on inputs drawn from bounded sets.   *)
(***************************************************************************)
Idle ==
    /\ env_key = "sk-ant-key"
    /\ digest_files = {}
    /\ web = <<>>
    /\ now = FirstDay
    /\ runs = 1
    /\ io = {}
    /\ at_start = [processed_file |-> NoFile, digest_files |-> {}]
    /\ cutoff_date = 0
    /\ feed_idx = 0
    /\ featured = <<>>
    /\ others = <<>>
    /\ html_digest = <<>>
    /\ sum_idx = 0
    /\ sent = <<>>

\* an Article as fetch_recent_articles builds it
MakeArticle(link, title, source, word_count, comments) ==
    NewArticle([link |-> link, title |-> title, word_count |-> word_count,
                comments |-> comments], FirstDay, source)

(***************************************************************************)
(* calculate_quality_score alone: the scoring loop over an article, a      *)
(* second article with the same word count and comments, one with one      *)
(* word more and one with one comment more                                 *)
(***************************************************************************)
MaxWords == 2001

MaxComments == 11

InitScore ==
    /\ Idle
    /\ processed_file = NoFile
    /\ processed_articles = EmptyLedger
    /\ featured_count = 0
    /\ pc = "scoring"
    /\ \E w \in 0..MaxWords, c \in 0..MaxComments :
          articles = << MakeArticle(<<"a">>, <<"A">>, "The Strategy Stack", w, c),
                        MakeArticle(<<"b">>, <<"B">>, "KP's Column", w, c),
                        MakeArticle(<<"a">>, <<"A">>, "The Strategy Stack", w + 1, c),
                        MakeArticle(<<"a">>, <<"A">>, "The Strategy Stack", w, c + 1) >>

\* "for article in articles: article.quality_score = ..."
ScoreArticles ==
    /\ pc = "scoring"
    /\ articles' \in ScoredLists(articles)
    /\ pc' = "scored"
    /\ UNCHANGED <<env_key, files, web, now, runs, processed_articles, featured_count,
                   cutoff_date, feed_idx, featured, others, html_digest, sum_idx, io,
                   at_start, sent>>

NextScore == ScoreArticles

SpecScore == InitScore /\ [][NextScore]_vars

(***************************************************************************)
(* select_top_articles and generate_digest_html alone, on any list of at   *)
(* most MaxArticles articles of ArticlePool and any count up to MaxCount   *)
(***************************************************************************)
MaxArticles == 3

MaxCount == 4

\* articles of two sources of one category, of a source of another, and of
\* two sources the table does not hold; the first two have the same score
ArticlePool ==
    { MakeArticle(<<"a">>, <<"A">>, "The Strategy Stack", 1000, 0),
      MakeArticle(<<"b">>, <<"B">>, "KP's Column", 0, 5),
      MakeArticle(<<"c">>, <<"C">>, "The Business Engineer", 2000, 10),
      MakeArticle(<<"d">>, <<"D">>, "https://kp.substack.com/feed", 500, 1),
      MakeArticle(<<"e">>, <<"E">>, "the strategy stack", 3000, 0) }

InitSelect ==
    /\ Idle
    /\ processed_file = NoFile
    /\ processed_articles = EmptyLedger
    /\ articles \in SeqsUpTo(ArticlePool, MaxArticles)
    /\ featured_count \in 0..MaxCount
    /\ pc = "selecting"

\* featured, others = self.select_top_articles(articles, featured_count)
SelectTop ==
    /\ pc = "selecting"
    /\ \E split \in select_top_articles(articles, featured_count) :
          /\ articles' = split.articles
          /\ featured' = split.featured
          /\ others' = split.others
    /\ pc' = "rendering"
    /\ UNCHANGED <<env_key, files, web, now, runs, processed_articles, featured_count,
                   cutoff_date, feed_idx, html_digest, sum_idx, io, at_start, sent>>

\* html_digest = self.generate_digest_html(featured, others)
Render ==
    /\ pc = "rendering"
    /\ html_digest' = generate_digest_html(featured, others)
    /\ pc' = "rendered"
    /\ UNCHANGED <<env_key, files, web, now, runs, processed_articles, featured_count,
                   cutoff_date, feed_idx, articles, featured, others, sum_idx, io,
                   at_start, sent>>

NextSelect == SelectTop \/ Render

SpecSelect == InitSelect /\ [][NextSelect]_vars

(***************************************************************************)
(* The ledger alone: an instance holding any ledger of at most MaxRecords  *)
(* records a list saves it, and a process is constructed over the file; or *)
(* a process is constructed where there is no file                         *)
(***************************************************************************)
MaxRecords == 2

\* records with a plain title, a title with a quote and a backslash, a title
\* with a non-ASCII letter and a line break, an empty title; scores with
\* two, one and no decimals
RecordPool ==
    { SeedRecord(<<"x">>, <<"A">>, 2500),
      SeedRecord(<<"y">>, <<"\"", "A", "\\">>, 2503),
      SeedRecord(<<"h", ":", "/", "/", "z">>, <<"U+00E9", "u", "\n">>, 10000),
      SeedRecord(<<"x">>, <<>>, 250) }

InitLedger ==
    /\ Idle
    /\ featured_count = 0
    /\ articles = <<>>
    /\ processed_file = NoFile
    /\ processed_articles \in [featured : SeqsUpTo(RecordPool, MaxRecords),
                               reviewed : SeqsUpTo(RecordPool, MaxRecords)]
    /\ pc \in {"saving", "start"}

\* self.save_processed_articles(), after which the process ends and the
\* script is started again
SaveLedger ==
    /\ pc = "saving"
    /\ processed_file' = save_processed_articles(processed_articles)
    /\ io' = io \cup {"write_ledger"}
    /\ pc' = "start"
    /\ UNCHANGED <<env_key, digest_files, web, now, runs, processed_articles, at_start,
                   locals>>

NextLedger == SaveLedger \/ Construct

SpecLedger == InitLedger /\ [][NextLedger]_vars

(***************************************************************************)
(* scrape_comments alone: the part of the entry loop that scrapes the      *)
(* comments of one entry and builds its article, for any answer of        *)
(* requests.get: a failure, or a page of at most MaxNodes nodes of NodePool *)
(***************************************************************************)
MaxNodes == 3

TextNode(text) == [tag |-> "text", href |-> <<>>, text |-> text]

LinkNode(href, text) == [tag |-> "a", href |-> href, text |-> text]

\* "3 comments", " 12 Comment ", "Replies (70)", a blank, a word, a link to the
\* comments with the text "9 likes 4" and a link elsewhere with "5 replies"
NodePool ==
    { TextNode(<<"3", " ", "c", "o", "m", "m", "e", "n", "t", "s">>),
      TextNode(<<" ", "1", "2", " ", "C", "o", "m", "m", "e", "n", "t", " ">>),
      TextNode(<<"R", "e", "p", "l", "i", "e", "s", " ", "(", "7", "0", ")">>),
      TextNode(<<" ">>),
      TextNode(<<"x">>),
      LinkNode(<<"#", "c", "o", "m", "m", "e", "n", "t", "s">>,
               <<"9", " ", "l", "i", "k", "e", "s", " ", "4">>),
      LinkNode(<<"/", "a", "b", "o", "u", "t">>,
               <<"5", " ", "r", "e", "p", "l", "i", "e", "s">>) }

InitScrape ==
    /\ env_key = "sk-ant-key"
    /\ processed_file = NoFile
    /\ digest_files = {}
    /\ web \in {<<response>> :
                  response \in FetchFailures
                      \cup {PageOf(page) : page \in SeqsUpTo(NodePool, MaxNodes)}}
    /\ now = FirstDay
    /\ runs = 1
    /\ pc = "scraping"
    /\ processed_articles = EmptyLedger
    /\ io = {"fetch_feed"}
    /\ at_start = [processed_file |-> NoFile, digest_files |-> {}]
    /\ featured_count = 0
    /\ cutoff_date = now - DefaultDaysBack
    /\ feed_idx = 1
    /\ articles = <<>>
    /\ featured = <<>>
    /\ others = <<>>
    /\ html_digest = <<>>
    /\ sum_idx = 0
    /\ sent = <<>>

\* "comments = self.scrape_comments(entry.link)" and the Article built with
\* it, for an entry whose page requests.get answers with web[1]
ScrapeEntry ==
    /\ pc = "scraping"
    /\ articles' = Append(articles,
                      MakeArticle(<<"x">>, <<"A">>, SourceName(newsletter_feeds[feed_idx]),
                                  1000, scrape_comments(web[1])))
    /\ io' = io \cup {"fetch_page"}
    /\ pc' = "scraped"
    /\ UNCHANGED <<env_key, files, web, now, runs, processed_articles, featured_count,
                   cutoff_date, feed_idx, featured, others, html_digest, sum_idx,
                   at_start, sent>>

NextScrape == ScrapeEntry

SpecScrape == InitScrape /\ [][NextScrape]_vars

(***************************************************************************)
(* Properties of fetch_recent_articles (under SpecFetch)                   *)
(***************************************************************************)
\* the pass over feed f, as the loop makes it
PassOf(f) ==
    ProcessFeed(web[f], processed_articles, cutoff_date, now,
                SourceName(newsletter_feeds[f]))

\* the feeds whose pass raises
FailingFeeds == {f \in 1..Len(newsletter_feeds) : PassOf(f).raised}

\* the records of a ledger, of both lists
LedgerRecords(ledger) ==
    Range(LedgerGet(ledger, "featured")) \cup Range(LedgerGet(ledger, "reviewed"))

\* C1: a link that is in the ledger's featured or reviewed list when the
\* fetch pass is made is the link of no article of the list the pass builds,
\* whatever title, content or date the feeds give it.
C1_Deduplication ==
    \A i \in 1..Len(articles) : articles[i].link \notin LedgerLinks(processed_articles)

\* the pass is over, it returned articles, and a feed held a recent entry,
\* reached by the loop, whose link is in the ledger under another title
C1_Witness ==
    /\ pc = "fetched"
    /\ articles # <<>>
    /\ \E f \in 1..Len(newsletter_feeds) :
          /\ ~PassOf(f).raised
          /\ \E j \in 1..Len(web[f].entries) :
                LET entry == web[f].entries[j]
                IN  /\ entry.published # NoDate
                    /\ entry.published >= cutoff_date
                    /\ \E r \in LedgerRecords(processed_articles) :
                          r.link = entry.link /\ r.title # entry.title

\* C3: when the pass over a feed raises, fetch_recent_articles still returns,
\* having gone through every feed, and the articles of the feeds that did not
\* raise are the list it returns for the feed list without the failing feeds.
C3_FeedFailureIsolation ==
    /\ pc \in {"fetching", "fetched"}
    /\ pc = "fetching" => feed_idx \in 1..Len(newsletter_feeds)
    /\ pc = "fetched" =>
          LET n == Len(newsletter_feeds)
              keep == SelectSeq([i \in 1..n |-> i], LAMBDA i : i \notin FailingFeeds)
              failing_sources == {SourceName(newsletter_feeds[f]) : f \in FailingFeeds}
          IN  SelectSeq(articles, LAMBDA a : a.source \notin failing_sources)
              = FetchFrom(1, [k \in 1..Len(keep) |-> newsletter_feeds[keep[k]]],
                          [k \in 1..Len(keep) |-> web[keep[k]]],
                          processed_articles, cutoff_date, now)

\* the pass is over, the first feed raised and the second gave an article
C3_Witness ==
    /\ pc = "fetched"
    /\ 1 \in FailingFeeds
    /\ 2 \notin FailingFeeds
    /\ \E i \in 1..Len(articles) : articles[i].source = SourceName(newsletter_feeds[2])

\* the date the loop takes for an entry: the clock for an entry without one
PubDate(entry) == IF entry.published = NoDate THEN now ELSE entry.published

\* an entry that is recent, not in the ledger, and processed without an
\* exception
Eligible(entry) ==
    /\ PubDate(entry) >= cutoff_date
    /\ entry.link \notin LedgerLinks(processed_articles)
    /\ entry.has_title

\* C11: a failure raised while one entry of a feed is processed is contained
\* to that entry: every eligible entry of a feed that answered, those after
\* a failing entry included, is in the list fetch_recent_articles returns.
C11_PerArticleContainment ==
    pc = "fetched" =>
        \A f \in 1..Len(newsletter_feeds) :
            ~web[f].raises =>
                \A j \in 1..Len(web[f].entries) :
                    LET entry == web[f].entries[j]
                    IN  Eligible(entry) =>
                            \E i \in 1..Len(articles) :
                                /\ articles[i].link = entry.link
                                /\ articles[i].title = entry.title
                                /\ articles[i].source = SourceName(newsletter_feeds[f])

(***************************************************************************)
(* Properties of scrape_comments (under SpecScrape)                        *)
(***************************************************************************)
\* the number scrape_comments returned for the entry
Scraped == articles[1].comments

\* the numbers pattern k matches in the text of the page that was fetched
MatchesOf(k) == FindAll(PageText(web[1].page), 1, comment_patterns[k])

\* the links to the comments that have a number in their text, in page order
NumberedLinks ==
    SelectSeq(CommentLinks(web[1].page),
              LAMBDA link : \E i \in 1..Len(link.text) : IsDigit(link.text[i]))

\* every number matched in the page: by one of the four patterns, or as the
\* number of a link to the comments
AllMatched ==
    UNION {Range(MatchesOf(k)) : k \in 1..Len(comment_patterns)}
    \cup {FirstNumber(NumberedLinks[i].text).val : i \in 1..Len(NumberedLinks)}

\* C12 as stated: scrape_comments returns the maximum of the numbers matched
\* over all four patterns and the link texts, and 0 when nothing matches or
\* the fetch of the page fails or times out.
C12_MaxOverAllPatterns ==
    pc = "scraped" =>
        Scraped = IF web[1].outcome # "page" \/ AllMatched = {} THEN 0
                  ELSE CHOOSE v \in AllMatched : \A u \in AllMatched : u <= v

\* C12, amended: scrape_comments returns the maximum of the numbers matched
\* by the first of the four patterns, in the order of the list, that matches
\* anything; when none matches, the first number in the text of the first
\* link to the comments that has one; and 0 when nothing matches or the
\* fetch of the page fails or times out.  It returns a number in every case.
C12_FirstPatternMax ==
    /\ pc \in {"scraping", "scraped"}
    /\ pc = "scraped" =>
          LET hit == {k \in 1..Len(comment_patterns) : MatchesOf(k) # <<>>}
          IN  /\ Len(articles) = 1
              /\ web[1].outcome # "page" => Scraped = 0
              /\ hit # {} =>
                    LET first == CHOOSE k \in hit : \A j \in hit : k <= j
                    IN  /\ Scraped \in Range(MatchesOf(first))
                        /\ \A v \in Range(MatchesOf(first)) : v <= Scraped
              /\ (hit = {} /\ NumberedLinks # <<>>) =>
                    Scraped = FirstNumber(NumberedLinks[1].text).val
              /\ (hit = {} /\ NumberedLinks = <<>>) => Scraped = 0

\* a page was scraped in which the first pattern matches twice, the first
\* match being the smaller, and a later pattern matches a greater number
C12_Witness ==
    /\ pc = "scraped"
    /\ Len(MatchesOf(1)) = 2
    /\ MatchesOf(1)[1] < MatchesOf(1)[2]
    /\ \E k \in 2..Len(comment_patterns) :
          \E v \in Range(MatchesOf(k)) : v > Scraped

(***************************************************************************)
(* Properties of calculate_quality_score (under SpecScore)                 *)
(***************************************************************************)
\* min(word_count/2000, 1.0)*50 + min(comments*5, 50), the comment part 0
\* without comments, in thousandths
ClaimedSum(word_count, comments) ==
    Min(word_count * 25, 50000)
    + (IF comments = 0 THEN 0 ELSE Min(comments * 5000, 50000))

\* C5: the score of an article is the claimed sum rounded to two decimals
\* (a hundredth nearest to it), lies between 0 and 100, is the same for
\* another article with the same word count and comments, does not decrease
\* with one more word or one more comment, and is 100.0 for (2000, 10), 0.0
\* for (0, 0) and 25.0 for (1000, 0).
C5_QualityScore ==
    pc = "scored" =>
        /\ \A i \in 1..Len(articles) :
              LET a == articles[i]
                  th == ClaimedSum(a.word_count, a.comments)
              IN  /\ a.quality_score \in 0..10000
                  /\ (10 * a.quality_score) - th \in -5..5
                  /\ (a.word_count = 2000 /\ a.comments = 10) => a.quality_score = 10000
                  /\ (a.word_count = 0 /\ a.comments = 0) => a.quality_score = 0
                  /\ (a.word_count = 1000 /\ a.comments = 0) => a.quality_score = 2500
        /\ articles[2].quality_score = articles[1].quality_score
        /\ articles[3].quality_score >= articles[1].quality_score
        /\ articles[4].quality_score >= articles[1].quality_score

\* an article past both caps has been scored, and so have its neighbours
C5_Witness ==
    /\ pc = "scored"
    /\ articles[1].word_count > 2000
    /\ articles[1].comments > 10
    /\ articles[4].quality_score = 10000

(***************************************************************************)
(* Properties of select_top_articles and generate_digest_html (under       *)
(* SpecSelect)                                                             *)
(***************************************************************************)
\* the articles of a list that have a given score, in the list's order
WithScore(list, score) == SelectSeq(list, LAMBDA a : a.quality_score = score)

\* C6: featured + others holds every article of the input exactly once, is
\* sorted by non-increasing score with the articles of one score in their
\* input order, featured has min(N, n) articles, and no article of others
\* has a higher score than one of featured.
C6_StablePartition ==
    pc \in {"rendering", "rendered"} =>
        LET out == featured \o others
            n == Len(articles)
        IN  /\ Len(out) = n
            /\ \A i, j \in 1..Len(out) :
                  i < j => out[i].quality_score >= out[j].quality_score
            /\ \A a \in Range(articles) \cup Range(out) :
                  WithScore(out, a.quality_score) = WithScore(articles, a.quality_score)
            /\ Len(featured) = Min(featured_count, n)
            /\ \A f \in Range(featured), o \in Range(others) :
                  o.quality_score <= f.quality_score

\* three articles were split in two: the last of the input is featured, and
\* the first of two with one score is featured while the second is not
C6_Witness ==
    /\ pc = "rendering"
    /\ Len(articles) = 3
    /\ Len(featured) = 2
    /\ featured[1] = articles[3]
    /\ featured[2] = articles[1]
    /\ others[1] = articles[2]
    /\ articles[1].quality_score = articles[2].quality_score
    /\ articles[1].link # articles[2].link

\* the category the lookup table gives a source
TableCategory(source) ==
    IF source \in DOMAIN source_categories THEN source_categories[source] ELSE "Other"

\* the places of the blocks of a tag in a document
BlocksOf(html, tag) == {p \in 1..Len(html) : html[p].tag = tag}

\* the category section a block is in: the title of the last one before it
SectionOf(html, p) ==
    LET titles == {q \in BlocksOf(html, "category-title") : q < p}
    IN  IF titles = {} THEN "none"
        ELSE html[CHOOSE q \in titles : \A r \in titles : r <= q].category

\* C10: the document rendered from the result of select_top_articles holds
\* min(k, n) featured entries, all before any category section and in
\* non-increasing score order, and n - min(k, n) entries in category
\* sections, every non-featured article once, in the section of the category
\* the table gives its source, "Other" when the table does not hold it.
C10_SelectionAndRendering ==
    pc = "rendered" =>
        LET html == html_digest
            n == Len(articles)
            m == Min(featured_count, n)
            fpos == BlocksOf(html, "featured")
            opos == BlocksOf(html, "other-article-item")
        IN  /\ Cardinality(fpos) = m
            /\ \A p \in fpos :
                  /\ SectionOf(html, p) = "none"
                  /\ \E q \in 1..(p - 1) :
                        html[q].tag = "h2" /\ html[q].text = "Featured Articles"
                  /\ \A q \in 1..(p - 1) :
                        html[q].tag = "h2" => html[q].text = "Featured Articles"
            /\ \A p, q \in fpos : p < q => html[p].quality_score >= html[q].quality_score
            /\ \A a \in Range(articles) :
                  Cardinality({p \in fpos : html[p].quality_score >= a.quality_score})
                      >= Min(m, Cardinality({i \in 1..n :
                                articles[i].quality_score >= a.quality_score}))
            /\ Cardinality(opos) = n - m
            /\ \A p \in opos : SectionOf(html, p) = TableCategory(html[p].source)
            /\ \A o \in Range(others) :
                  Cardinality({p \in opos : /\ html[p].link = o.link
                                            /\ html[p].title = o.title
                                            /\ html[p].source = o.source})
                      = Cardinality({i \in 1..Len(others) : others[i] = o})

\* a document was rendered with a featured entry and, among the others, an
\* article of a source of the table and one of a source it does not hold
C10_Witness ==
    /\ pc = "rendered"
    /\ featured # <<>>
    /\ \E i, j \in 1..Len(others) :
          /\ others[i].source \in DOMAIN source_categories
          /\ others[j].source \notin DOMAIN source_categories
    /\ \E p \in BlocksOf(html_digest, "other-article-item") :
          SectionOf(html_digest, p) = "Other"

(***************************************************************************)
(* Properties of the ledger file (under SpecLedger)                        *)
(***************************************************************************)
\* C8: a process constructed over the file that save_processed_articles
\* wrote for a ledger loads that ledger, the same records in the same order
\* in the same lists; a process constructed where no file exists loads the
\* empty default.
C8_LedgerRoundTrip ==
    [][/\ pc = "saving" => processed_file'.exists
       /\ pc = "start" =>
             /\ pc' = "ready"
             /\ processed_articles' = IF processed_file.exists THEN processed_articles
                                      ELSE EmptyLedger]_vars

\* a ledger was loaded from a file, with a title holding a quote and a
\* backslash in a record of one list and a title holding a non-ASCII letter
\* in a record of the other
C8_Witness ==
    /\ pc = "ready"
    /\ processed_file.exists
    /\ \E r \in Range(processed_articles.featured) : r.title = <<"\"", "A", "\\">>
    /\ \E r \in Range(processed_articles.reviewed) : "U+00E9" \in Range(r.title)

(***************************************************************************)
(* Properties of the runs (under Spec)                                     *)
(***************************************************************************)
\* the ledger a file holds
FileLedger(file) == load_processed_articles(file).val

IsPrefix(s, t) == Len(s) <= Len(t) /\ SubSeq(t, 1, Len(s)) = s

\* the records run_digest appends for a list of articles
RecordsOf(list, t) == [i \in 1..Len(list) |-> LedgerRecord(list[i], t)]

\* C2: no step of any run removes, changes or moves a record of the ledger
\* file; the step that ends a run with articles appends one record per
\* fetched article, the featured ones to "featured" and the others to
\* "reviewed"; and the list a fetch has returned holds no article whose link
\* the file holds.
C2_SeenStaysSeen ==
    [][/\ (processed_file' # processed_file \/ pc = "recording") =>
             \A written \in {processed_file'} :
                \A before \in {FileLedger(processed_file)}, after \in {FileLedger(written)} :
                   /\ IsPrefix(before.featured, after.featured)
                   /\ IsPrefix(before.reviewed, after.reviewed)
                   /\ pc = "recording"
                   /\ pc' = "done"
                   /\ after.featured = before.featured \o RecordsOf(featured, now)
                   /\ after.reviewed = before.reviewed \o RecordsOf(others, now)
                   /\ Len(featured) + Len(others) = Len(articles)
                   /\ {articles[i].link : i \in 1..Len(articles)}
                         \subseteq LedgerLinks(after)
       /\ pc = "fetched" =>
             {articles[i].link : i \in 1..Len(articles)}
                 \cap LedgerLinks(FileLedger(processed_file)) = {}]_vars

\* a second run has ended with articles over a ledger the first run filled
C2_Witness ==
    /\ runs = 2
    /\ pc = "done"
    /\ articles # <<>>
    /\ at_start.processed_file.exists
    /\ FileLedger(at_start.processed_file).featured # <<>>
    /\ FileLedger(at_start.processed_file).reviewed # <<>>
    /\ FileLedger(processed_file).reviewed # FileLedger(at_start.processed_file).reviewed

\* C4: when the fetch returns no article, run_digest ends with no digest
\* file written, the summarizer not called, the ledger in memory as it was
\* loaded and the ledger file not written.
C4_EarlyExit ==
    (pc = "done" /\ articles = <<>>) =>
        /\ digest_files = at_start.digest_files
        /\ processed_file = at_start.processed_file
        /\ processed_articles = FileLedger(at_start.processed_file)
        /\ io \cap {"summarize", "write_digest", "write_ledger"} = {}
        /\ sent = <<>>

\* a run over a ledger that an earlier run wrote has ended with no article
C4_Witness ==
    /\ pc = "done"
    /\ articles = <<>>
    /\ at_start.processed_file.exists
    /\ "fetch_feed" \in io

\* C7: each featured article is sent to the summarizer once, in order, a
\* failed call leaves the placeholder as its summary and a successful one the
\* text; the run goes on to write the digest and the ledger; the other
\* articles are never sent and keep an empty summary.
C7_SummarizerFailSoft ==
    /\ Len(sent) <= Len(featured)
    /\ \A i \in 1..Len(sent) :
          /\ sent[i].link = featured[i].link
          /\ featured[i].summary =
                IF sent[i].failed THEN "Summary unavailable."
                ELSE "A two sentence summary."
    /\ \A i \in 1..Len(others) : others[i].summary = ""
    /\ pc \in {"recording", "done"} /\ articles # <<>> => Len(sent) = Len(featured)
    /\ pc = "done" /\ articles # <<>> =>
          /\ DigestFilename(now) \in digest_files
          /\ "write_ledger" \in io
          /\ processed_file = save_processed_articles(processed_articles)
    /\ sent # <<>> => pc \in {"summarizing", "recording", "done"}

\* a run has ended whose first summary failed and whose second did not, with
\* an article that was not featured
C7_Witness ==
    /\ pc = "done"
    /\ Len(sent) = 2
    /\ sent[1].failed
    /\ ~sent[2].failed
    /\ others # <<>>

\* C9: with CLAUDE_API_KEY unset or empty the constructor raises ValueError,
\* and the process has then read no ledger, fetched nothing and written no
\* file.
C9_MissingCredential ==
    env_key \in {"unset", ""} =>
        /\ pc \in {"start", "raised_ValueError"}
        /\ io = {}
        /\ processed_file = at_start.processed_file
        /\ digest_files = at_start.digest_files
        /\ processed_articles = EmptyLedger

\* the constructor has raised for an empty key, with a ledger file to read
C9_Witness ==
    /\ pc = "raised_ValueError"
    /\ env_key = ""
    /\ processed_file.exists

\* the links of a list of articles or records, in order
LinksOf(list) == [i \in 1..Len(list) |-> list[i].link]

\* no element occurs twice in a list
NoRepeat(list) == \A i, j \in 1..Len(list) : list[i] = list[j] => i = j

\* C13: over any sequence of runs from a ledger without a repeated link, no
\* link occurs more than once across the "featured" and "reviewed" lists
\* together, in memory and in the file, and no run's list of fetched
\* articles holds two articles with the same link.
C13_LinkUniqueness ==
    /\ NoRepeat(LinksOf(articles))
    /\ NoRepeat(LinksOf(LedgerGet(processed_articles, "featured")
                        \o LedgerGet(processed_articles, "reviewed")))
    /\ \A ledger \in {FileLedger(processed_file)} :
          NoRepeat(LinksOf(ledger.featured \o ledger.reviewed))

=============================================================================
